---- MODULE Spec2Model ----
(***************************************************************************)
(* Model of server.py: a Flask application with two routes, "/api" and      *)
(* "/", started with app.run(host="0.0.0.0", port=5000) when the module is  *)
(* the main program.                                                        *)
(*                                                                          *)
(* The module's top-level statements are executed one by one (pc), then     *)
(* requests are handled.  A request goes through the stages Flask gives it: *)
(* the request context is created (Accept), the URL map is matched          *)
(* (MatchRequest), the view is called and its return value is made into a   *)
(* response (DispatchRequest), the response is written (SendResponse) and   *)
(* the context is popped (Close).                                           *)
(*                                                                          *)
(* Paths are sequences of segments, "/" being a segment of its own:         *)
(* "/api/" is <<"/", "api", "/">>.  Bodies are sequences of lexical tokens. *)
(***************************************************************************)
EXTENDS Naturals, Sequences, FiniteSets

\* ------------------------------------------------------------------ bounds

\* Connections handled at the same time in the threaded specification.
MaxInFlight == 2

\* Access-log lines the development server may write before the model stops
\* accepting requests.
MaxLogLines == 4

\* ---------------------------------------------------------- request alphabet

Methods == {"GET", "HEAD", "OPTIONS", "POST", "PUT", "DELETE"}

PathRoot == <<"/">>
PathApi == <<"/", "api">>

Paths ==
  { PathRoot, PathApi,
    <<"/", "api", "/">>, <<"/", "API">>, <<"/", "unknown">>,
    <<"/", "/", "api">>, <<"/", "static", "/", "app.css">> }

XhrHeader == <<"X-Requested-With", "XMLHttpRequest">>

Requests ==
  [ method : Methods, path : Paths, query : {"", "x=1"},
    body : {"", "data"}, headers : {{}, {XhrHeader}} ]

\* The reduced alphabet of the threaded specification.
ThreadedRequests ==
  { r \in Requests :
      /\ r.method \in {"GET", "HEAD", "POST"}
      /\ r.path \in {PathRoot, PathApi, <<"/", "unknown">>}
      /\ \/ r.query = "" /\ r.body = "" /\ r.headers = {}
         \/ r.query # "" /\ r.body # "" /\ r.headers # {} }

Serial == {1}
Threads == 1 .. MaxInFlight

\* ------------------------------------------------------------------- state

VARIABLES
  pc,                 \* the module statement to execute next
  name,               \* the value of __name__
  url_map,            \* app.url_map: the set of rules
  view_functions,     \* app.view_functions: the endpoints that have a view
  listener,           \* what app.run bound
  stderr,             \* access-log lines the development server has written
  ctx,                \* the request context of each connection
  wire                \* the responses written on each connection

vars ==
  <<pc, name, url_map, view_functions, listener, stderr, ctx, wire>>

NoListener == [host |-> "", port |-> 0]

NoRequest == [method |-> "", path |-> <<>>, query |-> "", body |-> "", headers |-> {}]

NoResponse ==
  [status |-> 0, mimetype |-> "", body |-> <<>>, allow |-> {}, location |-> <<>>]

NoRouting == [endpoint |-> "", exception |-> 0, allow |-> {}, location |-> <<>>]

IdleContext ==
  [stage |-> "idle", req |-> NoRequest, routing |-> NoRouting, view |-> "",
   resp |-> NoResponse]

\* ------------------------------------------------------------------ the app

\* The arguments of app.run.
RUN_ARGS == [host |-> "0.0.0.0", port |-> 5000]

\* The literal api() passes to jsonify: a mapping with the one key "message".
API_PAYLOAD == [message |-> "Hello from Chinecherem Udegbunam"]

\* The literal root() returns.
ROOT_BODY == "<h1>Index served from container</h1><p>Try GET /api</p>"

PathConverter == "<path:filename>"

\* The files under the application's static folder: the repository has none.
StaticFiles == {}

\* The methods of a rule: those given, HEAD whenever GET is among them, and
\* OPTIONS (answered automatically).
RuleMethods(methods) ==
  methods \cup (IF "GET" \in methods THEN {"HEAD"} ELSE {}) \cup {"OPTIONS"}

\* @app.route(rule) on a function: the rule is added with the function's name
\* as endpoint and the default methods, ("GET",).
route(rule, endpoint) ==
  [rule |-> rule, endpoint |-> endpoint, methods |-> RuleMethods({"GET"})]

\* Flask(__name__): a new application has one rule, for its static folder.
StaticRule == route(<<"/", "static", "/", PathConverter>>, "static")

\* ------------------------------------------------------------------- JSON

Punct(c) == [t |-> "punct", v |-> c]
Str(s) == [t |-> "str", v |-> s]
Ws(s) == [t |-> "ws", v |-> s]
Text(s) == [t |-> "text", v |-> s]

RECURSIVE DumpItems(_, _)
DumpItems(obj, keys) ==
  IF keys = {} THEN <<>>
  ELSE LET k == CHOOSE x \in keys : TRUE
           rest == keys \ {k}
       IN <<Str(k), Punct(":"), Str(obj[k])>>
            \o (IF rest = {} THEN <<>> ELSE <<Punct(",")>>)
            \o DumpItems(obj, rest)

\* json.dumps of a mapping from strings to strings.
Dumps(obj) == <<Punct("{")>> \o DumpItems(obj, DOMAIN obj) \o <<Punct("}")>>

RECURSIVE DumpItemsNoKey(_, _)
DumpItemsNoKey(obj, keys) ==
  IF keys = {} THEN <<>>
  ELSE LET k == CHOOSE x \in keys : TRUE
           rest == keys \ {k}
       IN <<Str(obj[k])>>
            \o (IF rest = {} THEN <<>> ELSE <<Punct(",")>>)
            \o DumpItemsNoKey(obj, rest)

jsonifyValuesOnly(obj) ==
  [kind |-> "response",
   text |-> "",
   response |->
     [status |-> 200, mimetype |-> "application/json",
      body |-> <<Punct("[")>> \o DumpItemsNoKey(obj, DOMAIN obj)
                 \o <<Punct("]"), Ws("\n")>>,
      allow |-> {}, location |-> <<>>]]

\* jsonify(obj): a response of type application/json whose body is the
\* serialised object followed by a newline.
jsonify(obj) ==
  [kind |-> "response",
   text |-> "",
   response |->
     [status |-> 200, mimetype |-> "application/json",
      body |-> Dumps(obj) \o <<Ws("\n")>>,
      allow |-> {}, location |-> <<>>]]

\* ------------------------------------------------------------------ views

apiPrettyUnlessXhr(request) ==
  IF XhrHeader \in request.headers
    THEN jsonify(API_PAYLOAD)
    ELSE [jsonify(API_PAYLOAD) EXCEPT
            !.response.body = <<Punct("{"), Ws("\n  ")>>
                                \o DumpItems(API_PAYLOAD, DOMAIN API_PAYLOAD)
                                \o <<Ws("\n"), Punct("}"), Ws("\n")>>]

\* def api(): the view of "/api".  `request` is the ambient request, which
\* the function does not read.
api(request) == jsonify(API_PAYLOAD)

rootHitCounter(request) ==
  [kind |-> "str",
   text |-> IF stderr > 0 THEN "<h1>Welcome back</h1>"
            ELSE ROOT_BODY,
   response |-> NoResponse]

rootOtherText(request) ==
  [kind |-> "str", text |-> "<h1>Index</h1>", response |-> NoResponse]

\* def root(): the view of "/".
root(request) == [kind |-> "str", text |-> ROOT_BODY, response |-> NoResponse]

NotFoundPage == <<Text("404 Not Found")>>
MethodNotAllowedPage == <<Text("405 Method Not Allowed")>>
RedirectPage == <<Text("Redirecting...")>>

\* An HTTP exception as the response Flask makes of it.
HttpException(code, allow, location) ==
  [status |-> code, mimetype |-> "text/html",
   body |-> CASE code = 404 -> NotFoundPage
              [] code = 405 -> MethodNotAllowedPage
              [] OTHER -> RedirectPage,
   allow |-> allow, location |-> location]

\* The static view: the file when the static folder has it, else NotFound.
send_static_file(request) ==
  [kind |-> "response", text |-> "",
   response |->
     IF SubSeq(request.path, 4, Len(request.path)) \in StaticFiles
       THEN [status |-> 200, mimetype |-> "application/octet-stream",
             body |-> <<Text("file")>>, allow |-> {}, location |-> <<>>]
       ELSE HttpException(404, {}, <<>>)]

make_response_swapped(rv) ==
  IF rv.kind = "str"
    THEN [status |-> 200, mimetype |-> "application/json",
          body |-> <<Text(rv.text)>>, allow |-> {}, location |-> <<>>]
    ELSE [rv.response EXCEPT !.mimetype = "text/html"]

\* make_response: a string becomes a 200 response of type text/html with the
\* string as body; a response object is kept as it is.
make_response(rv) ==
  IF rv.kind = "str"
    THEN [status |-> 200, mimetype |-> "text/html",
          body |-> <<Text(rv.text)>>, allow |-> {}, location |-> <<>>]
    ELSE rv.response

\* ---------------------------------------------------------------- routing

RuleMatchesPrefix(rule, path) ==
  /\ Len(path) >= Len(rule.rule)
  /\ SubSeq(path, 1, Len(rule.rule)) = rule.rule

\* A rule matches a path segment by segment.  A rule without a trailing
\* slash does not match the path with one, and matching is case-sensitive.
\* The path converter takes what is left of the path, which starts with a
\* segment other than "/".
RuleMatches(rule, path) ==
  IF rule.rule[Len(rule.rule)] = PathConverter
    THEN /\ Len(path) >= Len(rule.rule)
         /\ SubSeq(path, 1, Len(rule.rule) - 1)
              = SubSeq(rule.rule, 1, Len(rule.rule) - 1)
         /\ path[Len(rule.rule)] # "/"
    ELSE path = rule.rule

\* The path with each run of slashes made one slash.
RECURSIVE MergeSlashes(_)
MergeSlashes(path) ==
  IF Len(path) < 2 THEN path
  ELSE IF path[1] = "/" /\ path[2] = "/" THEN MergeSlashes(Tail(path))
  ELSE <<path[1]>> \o MergeSlashes(Tail(path))

\* The path the URL map matches: the request's path with its leading slashes
\* made one.
RECURSIVE LStrip(_)
LStrip(path) ==
  IF path # <<>> /\ path[1] = "/" THEN LStrip(Tail(path)) ELSE path

PathPart(path) == IF path = <<>> THEN <<>> ELSE <<"/">> \o LStrip(path)

MatchNoMethodCheck(map, req) ==
  LET direct == {r \in map : RuleMatches(r, PathPart(req.path))}
  IN IF direct # {}
       THEN [endpoint |-> (CHOOSE r \in direct : TRUE).endpoint,
             exception |-> 0, allow |-> {}, location |-> <<>>]
       ELSE [endpoint |-> "", exception |-> 404, allow |-> {}, location |-> <<>>]

\* The URL map's match of a request: the endpoint of a rule that matches the
\* path and has the method; else a redirect to the path with its slashes
\* merged when that matches; else MethodNotAllowed when some rule matches the
\* path (as given or merged) with other methods; else NotFound.
Match(map, req) ==
  LET path == PathPart(req.path)
      direct == {r \in map : RuleMatches(r, path)}
      merged == MergeSlashes(path)
      again == {r \in map : RuleMatches(r, merged)}
      have_match_for == UNION {r.methods : r \in direct \cup again}
  IN IF \E r \in direct : req.method \in r.methods
       THEN [endpoint |->
               (CHOOSE r \in direct : req.method \in r.methods).endpoint,
             exception |-> 0, allow |-> {}, location |-> <<>>]
     ELSE IF \E r \in again : req.method \in r.methods
       THEN [endpoint |-> "", exception |-> 308, allow |-> {},
             location |-> merged]
     ELSE IF have_match_for # {}
       THEN [endpoint |-> "", exception |-> 405, allow |-> have_match_for,
             location |-> <<>>]
     ELSE [endpoint |-> "", exception |-> 404, allow |-> {}, location |-> <<>>]

\* The view function of an endpoint, called in a request context.
CallView(endpoint, request) ==
  CASE endpoint = "api" -> api(request)
    [] endpoint = "root" -> root(request)
    [] OTHER -> send_static_file(request)

\* dispatch_request: a routing exception is raised and becomes the response;
\* OPTIONS is answered with the rule's methods without calling the view;
\* otherwise the endpoint's view is called.  The result is the view that ran
\* and the response.
dispatch_request(c) ==
  IF c.routing.exception # 0
    THEN [view |-> "",
          resp |-> HttpException(c.routing.exception, c.routing.allow,
                                 c.routing.location)]
  ELSE IF c.req.method = "OPTIONS"
    THEN [view |-> "",
          resp |-> [status |-> 200, mimetype |-> "text/html", body |-> <<>>,
                    allow |-> UNION {r.methods :
                                       r \in {x \in url_map :
                                                x.endpoint = c.routing.endpoint}},
                    location |-> <<>>]]
  ELSE [view |-> c.routing.endpoint,
        resp |-> make_response(CallView(c.routing.endpoint, c.req))]

\* What is written for a response: a HEAD request gets the headers and no
\* body.
get_app_iter(req, resp) ==
  IF req.method = "HEAD" THEN [resp EXCEPT !.body = <<>>] ELSE resp

\* The application called on one request by itself: the request is matched,
\* dispatched and its response written.
wsgi_app(r) ==
  LET c == [IdleContext EXCEPT !.req = r, !.routing = Match(url_map, r)]
  IN get_app_iter(r, dispatch_request(c).resp)

\* ------------------------------------------------------- running the module

Init ==
  /\ pc = "line2"
  /\ name \in {"__main__", "server"}
  /\ url_map = {}
  /\ view_functions = {}
  /\ listener = NoListener
  /\ stderr = 0
  /\ ctx = [w \in Serial |-> IdleContext]
  /\ wire = [w \in Serial |-> <<>>]

InitThreaded ==
  /\ pc = "line2"
  /\ name \in {"__main__", "server"}
  /\ url_map = {}
  /\ view_functions = {}
  /\ listener = NoListener
  /\ stderr = 0
  /\ ctx = [w \in Threads |-> IdleContext]
  /\ wire = [w \in Threads |-> <<>>]

\* app = Flask(__name__)
CreateApp ==
  /\ pc = "line2"
  /\ url_map' = {StaticRule}
  /\ view_functions' = {"static"}
  /\ pc' = "line4"
  /\ UNCHANGED <<name, listener, stderr, ctx, wire>>

\* @app.route("/api") def api
RouteApi ==
  /\ pc = "line4"
  /\ url_map' = url_map \cup {route(PathApi, "api")}
  /\ view_functions' = view_functions \cup {"api"}
  /\ pc' = "line8"
  /\ UNCHANGED <<name, listener, stderr, ctx, wire>>

\* @app.route("/") def root
RouteRoot ==
  /\ pc = "line8"
  /\ url_map' = url_map \cup {route(PathRoot, "root")}
  /\ view_functions' = view_functions \cup {"root"}
  /\ pc' = "line12"
  /\ UNCHANGED <<name, listener, stderr, ctx, wire>>

IsMainAlways == TRUE

\* __name__ == "__main__"
IsMain == name = "__main__"

\* app.run(host, port): the development server binds the host and port
\* given and serves until the process ends.
run(host, port) == [host |-> host, port |-> port]

\* if __name__ == "__main__": app.run(host="0.0.0.0", port=5000)
MainGuard ==
  /\ pc = "line12"
  /\ IF IsMain
       THEN /\ listener' = run(RUN_ARGS.host, RUN_ARGS.port)
            /\ pc' = "serving"
       ELSE /\ listener' = listener
            /\ pc' = "imported"
  /\ UNCHANGED <<name, url_map, view_functions, stderr, ctx, wire>>

Load == CreateApp \/ RouteApi \/ RouteRoot \/ MainGuard

\* ------------------------------------------------------- handling a request

InFlight == {w \in DOMAIN ctx : ctx[w].stage # "idle"}

RequestContextShared(w) == ctx[CHOOSE v \in InFlight : \A u \in InFlight : v <= u]

\* The ambient request context of the thread of connection w: each thread
\* has its own.
RequestContext(w) == ctx[w]

log_request_none(lines) == lines

\* The development server writes one access-log line for each response.
log_request(lines) == lines + 1

\* A request arrives on connection w: once the module has run, through the
\* listener when the module is the main program, through the importing
\* server otherwise.
Accept(w, r) ==
  /\ pc \in {"serving", "imported"}
  /\ ctx[w].stage = "idle"
  /\ stderr + Cardinality(InFlight) < MaxLogLines
  /\ ctx' = [ctx EXCEPT ![w] = [IdleContext EXCEPT !.stage = "accepted", !.req = r]]
  /\ wire' = [wire EXCEPT ![w] = <<>>]
  /\ UNCHANGED <<pc, name, url_map, view_functions, listener, stderr>>

\* The request context is pushed and the URL is matched.
MatchRequest(w) ==
  /\ ctx[w].stage = "accepted"
  /\ ctx' = [ctx EXCEPT ![w].stage = "matched",
                        ![w].routing = Match(url_map, ctx[w].req)]
  /\ UNCHANGED <<pc, name, url_map, view_functions, listener, stderr, wire>>

\* full_dispatch_request: the request of the thread's context is dispatched
\* and the return value made into the response.
DispatchRequest(w) ==
  /\ ctx[w].stage = "matched"
  /\ LET rv == dispatch_request(RequestContext(w))
     IN ctx' = [ctx EXCEPT ![w].stage = "dispatched",
                           ![w].view = rv.view,
                           ![w].resp = rv.resp]
  /\ UNCHANGED <<pc, name, url_map, view_functions, listener, stderr, wire>>

\* The response is written to the connection; the development server logs it.
SendResponse(w) ==
  /\ ctx[w].stage = "dispatched"
  /\ wire' = [wire EXCEPT ![w] = Append(@, get_app_iter(ctx[w].req, ctx[w].resp))]
  /\ ctx' = [ctx EXCEPT ![w].stage = "sent"]
  /\ stderr' = IF listener # NoListener THEN log_request(stderr) ELSE stderr
  /\ UNCHANGED <<pc, name, url_map, view_functions, listener>>

\* The request context is popped and the connection is free again.
Close(w) ==
  /\ ctx[w].stage = "sent"
  /\ ctx' = [ctx EXCEPT ![w] = IdleContext]
  /\ wire' = [wire EXCEPT ![w] = <<>>]
  /\ UNCHANGED <<pc, name, url_map, view_functions, listener, stderr>>

Handle(w) == MatchRequest(w) \/ DispatchRequest(w) \/ SendResponse(w) \/ Close(w)

\* One connection at a time, every request of the alphabet.
Next ==
  \/ Load
  \/ \E w \in Serial : (\E r \in Requests : Accept(w, r)) \/ Handle(w)

Spec == Init /\ [][Next]_vars

\* MaxInFlight connections at a time, the reduced alphabet.
NextThreaded ==
  \/ Load
  \/ \E w \in Threads : (\E r \in ThreadedRequests : Accept(w, r)) \/ Handle(w)

SpecThreaded == InitThreaded /\ [][NextThreaded]_vars

\* ----------------------------------------------------------------- claims

\* Reading a body as JSON: white space is skipped, and the body must be an
\* object whose members are "key": "value" pairs.  The result is the mapping
\* read, or not ok.
NotJson == [ok |-> FALSE, value |-> [k \in {} |-> ""]]

RECURSIVE ParseMembers(_, _)
ParseMembers(toks, acc) ==
  IF Len(toks) < 3 \/ toks[1].t # "str" \/ toks[2] # Punct(":") \/ toks[3].t # "str"
    THEN NotJson
  ELSE LET k == toks[1].v
           v == toks[3].v
           got == [x \in DOMAIN acc \cup {k} |-> IF x = k THEN v ELSE acc[x]]
       IN IF Len(toks) = 3 THEN [ok |-> TRUE, value |-> got]
          ELSE IF toks[4] = Punct(",") THEN ParseMembers(SubSeq(toks, 5, Len(toks)), got)
          ELSE NotJson

Loads(body) ==
  LET toks == SelectSeq(body, LAMBDA t : t.t # "ws")
  IN IF Len(toks) < 2 \/ toks[1] # Punct("{") \/ toks[Len(toks)] # Punct("}")
       THEN NotJson
     ELSE IF Len(toks) = 2 THEN [ok |-> TRUE, value |-> [k \in {} |-> ""]]
     ELSE ParseMembers(SubSeq(toks, 2, Len(toks) - 1), [k \in {} |-> ""])

Connections == DOMAIN ctx

\* The connection has been sent the response to its request.
Sent(w) == ctx[w].stage = "sent"

DefinedPaths == {PathRoot, PathApi}

UnderStatic(path) == Len(path) >= 4 /\ SubSeq(path, 1, 3) = <<"/", "static", "/">>

HasRepeatedSlash(path) ==
  \E i \in 1 .. Len(path) - 1 : path[i] = "/" /\ path[i + 1] = "/"

\* C1: in every reachable state, a GET request for exactly "/" is answered
\* with status 200 and the body <h1>Index served from container</h1><p>Try
\* GET /api</p>.
C1_GetRoot ==
  \A w \in Connections :
    Sent(w) /\ ctx[w].req.method = "GET" /\ ctx[w].req.path = PathRoot
      => /\ Len(wire[w]) = 1
         /\ wire[w][1].status = 200
         /\ wire[w][1].body
              = <<Text("<h1>Index served from container</h1><p>Try GET /api</p>")>>

\* A GET for "/" has been answered after earlier requests were served.
C1_Witness ==
  /\ stderr >= 3
  /\ \E w \in Connections :
       /\ Sent(w) /\ ctx[w].req.method = "GET" /\ ctx[w].req.path = PathRoot
       /\ ctx[w].req.query # ""
       /\ wire[w][1].status = 200

\* C2: in every reachable state, a GET request for exactly "/api" is answered
\* with status 200 and a body that parses as JSON to an object with the one
\* key "message", whose value is "Hello from Chinecherem Udegbunam".
C2_GetApi ==
  \A w \in Connections :
    Sent(w) /\ ctx[w].req.method = "GET" /\ ctx[w].req.path = PathApi
      => /\ Len(wire[w]) = 1
         /\ wire[w][1].status = 200
         /\ Loads(wire[w][1].body).ok
         /\ DOMAIN Loads(wire[w][1].body).value = {"message"}
         /\ Loads(wire[w][1].body).value["message"]
              = "Hello from Chinecherem Udegbunam"

\* A GET for "/api" has been answered with a body that parses.
C2_Witness ==
  /\ stderr >= 2
  /\ \E w \in Connections :
       /\ Sent(w) /\ ctx[w].req.method = "GET" /\ ctx[w].req.path = PathApi
       /\ Loads(wire[w][1].body).ok

\* C3 as claimed: for every path other than exactly "/" and "/api", and any
\* method, the status is 404 and neither root nor api runs.
C3_OtherPaths404 ==
  \A w \in Connections :
    Sent(w) /\ ctx[w].req.path \notin DefinedPaths
      => wire[w][1].status = 404 /\ ctx[w].view \notin {"root", "api"}

\* C3 as amended: a path that differs from "/" or "/api" only by more
\* leading slashes is routed as that path.  For every other path than these
\* and exactly "/" and "/api", neither root nor api runs, and the status is
\* 404 for any method unless the path is under /static/ or has repeated
\* slashes; this covers "/api/", "/API" and "/unknown".  Under /static/ the
\* static rule answers: 404 for GET and HEAD (there is no such file), 200
\* for OPTIONS, 405 for other methods.
C3_UnmatchedPaths404 ==
  \A w \in Connections :
    Sent(w) /\ ctx[w].req.path \notin DefinedPaths
      => LET r == ctx[w].req
             status == wire[w][1].status
         IN /\ Len(wire[w]) = 1
            /\ r.path # <<"/", "/", "api">> => ctx[w].view \notin {"root", "api"}
            /\ ~UnderStatic(r.path) /\ ~HasRepeatedSlash(r.path) => status = 404
            /\ r.path \in {<<"/", "api", "/">>, <<"/", "API">>, <<"/", "unknown">>}
                 => status = 404
            /\ UnderStatic(r.path) /\ ~HasRepeatedSlash(r.path) =>
                 status = (CASE r.method \in {"GET", "HEAD"} -> 404
                             [] r.method = "OPTIONS" -> 200
                             [] OTHER -> 405)
            /\ r.path = <<"/", "/", "api">> =>
                 /\ status = (IF r.method \in {"GET", "HEAD", "OPTIONS"}
                                THEN 200 ELSE 405)
                 /\ ctx[w].view = (IF r.method \in {"GET", "HEAD"} THEN "api" ELSE "")

\* A near-miss of "/api" has been answered 404 to a method other than GET.
C3_Witness ==
  \E w \in Connections :
    /\ Sent(w) /\ ctx[w].req.path = <<"/", "api", "/">>
    /\ ctx[w].req.method = "POST"
    /\ wire[w][1].status = 404

\* C4: a request for "/" or "/api" with a method the route does not have
\* (POST, PUT, DELETE) is answered 405, and the route's view does not run.
C4_MethodNotAllowed ==
  \A w \in Connections :
    (/\ Sent(w) /\ ctx[w].req.path \in DefinedPaths
     /\ ctx[w].req.method \in {"POST", "PUT", "DELETE"})
      => /\ Len(wire[w]) = 1
         /\ wire[w][1].status = 405
         /\ ctx[w].view = ""

\* A DELETE for "/api" has been answered 405.
C4_Witness ==
  \E w \in Connections :
    /\ Sent(w) /\ ctx[w].req.path = PathApi /\ ctx[w].req.method = "DELETE"
    /\ wire[w][1].status = 405

\* C5: two identical requests for "/" (or for "/api") get the same response,
\* status, headers and body, whatever was served between them.
C5_Idempotent ==
  \A w1, w2 \in Connections :
    (/\ Sent(w1) /\ Sent(w2)
     /\ ctx[w1].req = ctx[w2].req
     /\ ctx[w1].req.path \in DefinedPaths)
      => /\ Len(wire[w1]) = 1
         /\ wire[w1] = wire[w2]

\* Two identical GETs for "/" have been answered, the first before and the
\* second after another request was served.
C5_Witness ==
  /\ stderr >= 3
  /\ \E w1, w2 \in Connections :
       /\ w1 # w2 /\ Sent(w1) /\ Sent(w2)
       /\ ctx[w1].req = ctx[w2].req
       /\ ctx[w1].req.method = "GET" /\ ctx[w1].req.path = PathRoot
       /\ wire[w1] = wire[w2]

\* C6: the response to a GET for "/" or "/api" is the response to every GET
\* for the same path that differs in query string, body or headers, and the
\* request with none of them is answered 200.
C6_PathOnly ==
  \A w \in Connections :
    Sent(w) /\ ctx[w].req.method = "GET" /\ ctx[w].req.path \in DefinedPaths
      => /\ Len(wire[w]) = 1
         /\ \A r2 \in Requests :
              r2.method = "GET" /\ r2.path = ctx[w].req.path
                => /\ wsgi_app(r2).status = wire[w][1].status
                   /\ wsgi_app(r2).body = wire[w][1].body
         /\ ctx[w].req.query = "" /\ ctx[w].req.body = "" /\ ctx[w].req.headers = {}
              => wire[w][1].status = 200

\* A GET for "/api" with a query string, a body and a header was answered.
C6_Witness ==
  \E w \in Connections :
    /\ Sent(w) /\ ctx[w].req.method = "GET" /\ ctx[w].req.path = PathApi
    /\ ctx[w].req.query # "" /\ ctx[w].req.body # "" /\ ctx[w].req.headers # {}
    /\ wire[w][1].status = 200

\* C7: the response to GET "/" has Content-Type text/html, the response to
\* GET "/api" has application/json, and no 200 response is without one.
C7_ContentType ==
  \A w \in Connections :
    Sent(w) =>
      /\ Len(wire[w]) = 1
      /\ ctx[w].req.method = "GET" /\ ctx[w].req.path = PathRoot
           => wire[w][1].mimetype = "text/html"
      /\ ctx[w].req.method = "GET" /\ ctx[w].req.path = PathApi
           => wire[w][1].mimetype = "application/json"
      /\ wire[w][1].status = 200 => wire[w][1].mimetype # ""

\* A GET for "/api" was answered 200 with a JSON content type.
C7_Witness ==
  \E w \in Connections :
    /\ Sent(w) /\ ctx[w].req.method = "GET" /\ ctx[w].req.path = PathApi
    /\ wire[w][1].status = 200
    /\ wire[w][1].mimetype = "application/json"

\* C8: as the main program the module starts the listener on host 0.0.0.0
\* and port 5000 and on nothing else; imported, it registers the two routes
\* and starts no listener.
C8_Listener ==
  /\ listener # NoListener
       => /\ name = "__main__" /\ pc = "serving"
          /\ listener = [host |-> "0.0.0.0", port |-> 5000]
  /\ pc = "serving" => listener = [host |-> "0.0.0.0", port |-> 5000]
  /\ pc = "imported"
       => /\ name # "__main__"
          /\ listener = NoListener
          /\ DefinedPaths \subseteq {r.rule : r \in url_map}
          /\ {"api", "root"} \subseteq view_functions
  /\ name # "__main__" => pc # "serving"
  /\ name = "__main__" => pc # "imported"

\* The main program is listening and has answered a request.
C8_Witness ==
  /\ name = "__main__" /\ pc = "serving"
  /\ listener = [host |-> "0.0.0.0", port |-> 5000]
  /\ \E w \in Connections : Sent(w)

\* The steps in which a response is written.
Sending == {w \in Connections : ctx[w].stage = "dispatched" /\ ctx'[w].stage = "sent"}

\* The server-side state: the route table, the views, the listener, the log.
ServerState == <<url_map, view_functions, listener, stderr>>

\* C9 as claimed: once the module has run, no step of handling a request
\* changes the route table, the views, the listener or the log.
C9_NoSideEffect ==
  [][(pc \in {"serving", "imported"}) => ServerState' = ServerState]_vars

\* C9 as amended: handling a request leaves the route table, the views and
\* the listener as they were and leaves no request context behind; besides
\* the response, its one effect is the access-log line the development
\* server writes for each response when the module runs as the main program.
C9_OnlyAccessLog ==
  [][(pc \in {"serving", "imported"})
       => /\ pc' = pc /\ name' = name
          /\ url_map' = url_map /\ view_functions' = view_functions
          /\ listener' = listener
          /\ stderr' = stderr + (IF name = "__main__" THEN Cardinality(Sending) ELSE 0)
          /\ \A w \in Connections :
               ctx[w].stage = "sent" /\ ctx'[w].stage # "sent"
                 => ctx'[w] = IdleContext /\ wire'[w] = <<>>]_vars

\* Requests have been answered by the main program, each logged, with the
\* route table as the module made it.
C9_Witness ==
  /\ name = "__main__" /\ stderr >= 2
  /\ Cardinality(url_map) = 3
  /\ \E w \in Connections : Sent(w) /\ wire[w][1].status = 404

\* C10: with requests in flight together, each gets exactly one response,
\* the one it gets when handled alone, and none before it is sent.
C10_NoInterference ==
  \A w \in Connections :
    /\ Sent(w) => wire[w] = <<wsgi_app(ctx[w].req)>>
    /\ ~Sent(w) => wire[w] = <<>>

\* Two different requests in flight together have both been answered, each
\* with its own response.
C10_Witness ==
  \E w1, w2 \in Connections :
    /\ Sent(w1) /\ Sent(w2)
    /\ ctx[w1].req.method = "GET" /\ ctx[w1].req.path = PathApi
    /\ ctx[w2].req.method = "POST" /\ ctx[w2].req.path = <<"/", "unknown">>
    /\ wire[w1][1].status = 200 /\ wire[w2][1].status = 404

====
